---- MODULE Spec2Model ----
(***************************************************************************)
(* Model of the SpawnUI component (src/spawnBuggyUI.ts): the three indices *)
(* over spawned entities and the despawn request handlers that run on one  *)
(* cooperative thread and suspend at every `await world.deleteAsset(...)`.  *)
(***************************************************************************)
EXTENDS Integers, Sequences, FiniteSets, Bags, TLC

\* ---------------------------------------------------------------- bounds
MaxPlayers == 2      \* player ids 1..MaxPlayers
MaxGroupIds == 2     \* values generateGroupId may return
MaxHandles == 2      \* entities ever created by world.spawnAsset
MaxSpawnSize == 2    \* entities returned by one world.spawnAsset call
MaxRequests == 3     \* despawn request events sent to the component
MaxTagFailures == 1  \* e.tags.add calls that throw
MaxPending == 1      \* suspended handleSpawnRequest calls of one player
MaxZoneRequests == 2 \* requests sent while a despawn zone is watched
MaxTriggerRequests == 2 \* requests sent by a TriggerLogic
MaxBuggies == 2      \* TourBuggy components in the world
MaxPos == 1          \* largest coordinate a mover reaches

Players == 1..MaxPlayers
GroupIds == 1..MaxGroupIds
Handles == 1..MaxHandles
NoGroup == 0         \* null: no group id
\* an entity of the world that this component did not spawn (a scene object
\* carrying the zone's tag): a despawn zone may name it in a request
Foreign == MaxHandles + 1

VARIABLES
    spawnedEntities,  \* Map<number, Entity[]>: player id -> entities
    groupEntities,    \* Map<string, Entity[]>: group id -> entities
    entityToGroup,    \* Map<bigint, string>: entity id -> group id
    tags,             \* entity -> group id held in its 'gid:' tag, or NoGroup
    deleted,          \* entities whose world.deleteAsset has succeeded
    nextHandle,       \* id of the next entity world.spawnAsset creates
    untouched,        \* entity -> player who spawned it, for the entities no
                      \* despawn request has taken or named yet
    retry,            \* player -> the entities the last player listener run
                      \* for that player put back, with what the player has
                      \* spawned since; empty once the player's list is read
    handlers,         \* registered (group, entity) listener pairs
    nreq,             \* despawn request events sent to the component so far
    calls,            \* handler invocations suspended on an await, oldest first
    groupMsgs,        \* requestDespawnGroupEvent broadcasts in flight
    out,              \* what the last step sent: a result event, nothing, or
                      \* the mark of a request event that reached no listener
    errorMessage,     \* errorMessageBinding: the text shown on the spawn panel
    pendingSpawns,    \* player -> handleSpawnRequest calls of that player that
                      \* are suspended on `await this.world.spawnAsset(...)`
    spawnOf,          \* entity -> first entity of the spawn it came from
    codec,            \* one run of the group tag codec
    trigger,          \* a TriggerLogic component and the events around it
    buggies,          \* the TourBuggy components
    ui,               \* TourBuggyUI: player -> value of the running binding
    entered,          \* the guidance trigger entry the last step handled
    exited,           \* player -> how far the despawn sent at the player's
                      \* world exit has come: "no" exit yet, "pending",
                      \* "done" without failure, or "failed"
    zone              \* a SpawnBuggyDespawnZone, its feedback text gizmo and
                      \* what its last OnEntityEnterTrigger callback did

\* the state of the other components
others == <<spawnOf, codec, trigger, buggies, ui, entered, exited, zone>>

vars == <<spawnedEntities, groupEntities, entityToGroup, tags, deleted,
          nextHandle, untouched, retry, handlers, nreq, calls, groupMsgs, out,
          errorMessage, pendingSpawns, others>>

\* the state of SpawnUI
spawnVars == <<spawnedEntities, groupEntities, entityToGroup, tags, deleted,
               nextHandle, untouched, retry, handlers, nreq, calls, groupMsgs,
               out, errorMessage, pendingSpawns>>

\* the three indices of SpawnUI
registry == <<spawnedEntities, groupEntities, entityToGroup>>

\* ------------------------------------------------------------- Map helpers
MapGet(m, k, d) == IF k \in DOMAIN m THEN m[k] ELSE d
MapSet(m, k, v) == [x \in (DOMAIN m) \cup {k} |-> IF x = k THEN v ELSE m[x]]
MapDelete(m, k) == [x \in (DOMAIN m) \ {k} |-> m[x]]
EmptyMap == [x \in {} |-> 0]

Range(s) == {s[i] : i \in DOMAIN s}

RECURSIVE Filter(_, _)
\* Array.prototype.filter: the elements of s that are in keep, in order
Filter(s, keep) ==
    IF s = <<>> THEN <<>>
    ELSE IF Head(s) \in keep THEN <<Head(s)>> \o Filter(Tail(s), keep)
         ELSE Filter(Tail(s), keep)

\* ------------------------------------------------------- registry accessors
getPlayerSpawnedEntities(m, playerId) == MapGet(m, playerId, <<>>)

\* mutant: the player's list is read without being cleared
clearPlayerEntities_Keep(m, playerId) == m

clearPlayerEntities(m, playerId) == MapDelete(m, playerId)

\* groupIdFromEntityTags(new Entity(id)): the gid tag of an entity that still
\* exists; reading the tags of a deleted entity throws or finds none -> null
groupIdFromEntityTags(e) ==
    IF e \in deleted \/ e \notin DOMAIN tags THEN NoGroup ELSE tags[e]

\* entityToGroup.get(entityId) || null, then the tag fallback
ResolveGroup(entityId) ==
    LET gid == MapGet(entityToGroup, entityId, NoGroup)
    IN IF gid # NoGroup THEN gid ELSE groupIdFromEntityTags(entityId)

\* ----------------------------------------------------------------- events
\* A request event: its kind and the playerId / groupId / entityId it carries
Request(kind, key) == [kind |-> kind, key |-> key]

\* a result event: despawnResultEvent {playerId, count, failedCount} or
\* despawnByKeyResultEvent {key, count, failedCount}; req and taken note the
\* request it answers and the entities the invocation had read
Result(kind, key, count, failedCount, req, taken) ==
    [key |-> <<kind, key>>, count |-> count, failedCount |-> failedCount,
     req |-> req, taken |-> taken]

NoResult == Result("none", 0, 0, 0, Request("none", 0), <<>>)

\* the request event req was delivered while no listener for it was connected
Dropped(req) == Result("dropped", 0, 0, 0, req, <<>>)

\* ------------------------------------------------------------------ spawn
\* mutant: world.spawnAsset hands out entity ids it has handed out before
spawnAsset_Reuse(first, n) == [i \in 1..n |-> i]

\* world.spawnAsset: n new entities, their ids unused so far
spawnAsset(first, n) == [i \in 1..n |-> first + i - 1]

\* mutant: the new group's entities are left out of entityToGroup
RegisterReverse_Skip(m, gid, entities) == m

\* mutant: the first e.tags.add that throws ends the tagging loop
tagSpawnGroup_Abort(t, entities, tagged, gid) ==
    [e \in (DOMAIN t) \cup Range(entities) |->
        IF e \in Range(entities)
        THEN (IF \A x \in Range(entities) : x <= e => x \in tagged
              THEN gid ELSE NoGroup)
        ELSE t[e]]

\* tagSpawnGroup: every entity in tagged gets 'gid:<gid>'; for the others
\* e.tags.add threw and the error was logged
tagSpawnGroup(t, entities, tagged, gid) ==
    [e \in (DOMAIN t) \cup Range(entities) |->
        IF e \in Range(entities)
        THEN (IF e \in tagged THEN gid ELSE NoGroup)
        ELSE t[e]]

\* mutant: the new group is not stored
RegisterGroup_Skip(m, gid, entities) == m

\* groupEntities.set(groupId, entities)
RegisterGroup(m, gid, entities) == MapSet(m, gid, entities)

\* for (const e of entities) entityToGroup.set(e.id, groupId)
RegisterReverse(m, gid, entities) ==
    [e \in (DOMAIN m) \cup Range(entities) |->
        IF e \in Range(entities) THEN gid ELSE m[e]]

\* mutant: the new entities replace the player's list instead of extending it
TrackForPlayer_Overwrite(m, playerId, entities) == MapSet(m, playerId, entities)

\* if (!has(playerId)) set(playerId, []); get(playerId).push(...entities)
TrackForPlayer(m, playerId, entities) ==
    MapSet(m, playerId, MapGet(m, playerId, <<>>) \o entities)

\* handleSpawnRequest from the return of `await this.world.spawnAsset(...)`
\* with n new entities to its end (the part before the await reads props only)
handleSpawnRequest(p, n, gid, tagged) ==
    /\ nextHandle + n - 1 <= MaxHandles
    /\ LET entities == spawnAsset(nextHandle, n)
       IN /\ tagged \subseteq Range(entities)
          /\ Cardinality({e \in DOMAIN tags : tags[e] = NoGroup})
                + Cardinality(Range(entities) \ tagged) <= MaxTagFailures
          /\ tags' = tagSpawnGroup(tags, entities, tagged, gid)
          /\ groupEntities' = RegisterGroup(groupEntities, gid, entities)
          /\ entityToGroup' = RegisterReverse(entityToGroup, gid, entities)
          /\ spawnedEntities' = TrackForPlayer(spawnedEntities, p, entities)
          /\ untouched' = [e \in (DOMAIN untouched) \cup Range(entities) |->
                             IF e \in Range(entities) THEN p ELSE untouched[e]]
          /\ retry' = IF retry[p] # {}
                      THEN [retry EXCEPT ![p] = @ \cup Range(entities)]
                      ELSE retry
          /\ calls' = [c \in DOMAIN calls |->
                         IF calls[c].kind = "player" /\ calls[c].key = p
                         THEN [calls[c] EXCEPT !.since = "spawned"]
                         ELSE calls[c]]
    /\ nextHandle' = nextHandle + n
    /\ errorMessage' = ""
    /\ out' = NoResult
    /\ UNCHANGED <<deleted, handlers, nreq, groupMsgs>>

\* handleSpawnRequest on a button whose asset prop is not set: if (!buggy)
\* { errorMessageBinding.set("Error: No Asset Configured"); return; }
SpawnNoAsset(p) ==
    /\ errorMessage' = "Error: No Asset Configured"
    /\ out' = NoResult
    /\ UNCHANGED <<spawnedEntities, groupEntities, entityToGroup, tags, deleted,
                   nextHandle, untouched, retry, handlers, nreq, calls, groupMsgs,
                   pendingSpawns>>

\* handleSpawnRequest on a button with an asset, up to the suspension on
\* `await this.world.spawnAsset(...)`: it has read props and positions only
SpawnClick(p) ==
    /\ pendingSpawns[p] < MaxPending
    /\ pendingSpawns' = [pendingSpawns EXCEPT ![p] = @ + 1]
    /\ out' = NoResult
    /\ UNCHANGED <<spawnedEntities, groupEntities, entityToGroup, tags, deleted,
                   nextHandle, untouched, retry, handlers, nreq, calls, groupMsgs,
                   errorMessage>>

\* the awaited spawnAsset of one suspended call of p returned n entities
SpawnResolved(p, n, gid, tagged) ==
    /\ pendingSpawns[p] > 0
    /\ pendingSpawns' = [pendingSpawns EXCEPT ![p] = @ - 1]
    /\ handleSpawnRequest(p, n, gid, tagged)

\* mutant: a spawn whose creation call threw leaves an ownership entry
SpawnRejected_Tracks(p) ==
    /\ pendingSpawns[p] > 0
    /\ pendingSpawns' = [pendingSpawns EXCEPT ![p] = @ - 1]
    /\ errorMessage' = "Error spawning asset"
    /\ spawnedEntities' = MapSet(spawnedEntities, p, <<>>)
    /\ out' = NoResult
    /\ UNCHANGED <<groupEntities, entityToGroup, tags, deleted,
                   nextHandle, untouched, retry, handlers, nreq, calls, groupMsgs>>

\* the awaited spawnAsset of one suspended call of p threw: catch (error)
\* { errorMessageBinding.set("Error spawning asset"); }
SpawnRejected(p) ==
    /\ pendingSpawns[p] > 0
    /\ pendingSpawns' = [pendingSpawns EXCEPT ![p] = @ - 1]
    /\ errorMessage' = "Error spawning asset"
    /\ out' = NoResult
    /\ UNCHANGED <<spawnedEntities, groupEntities, entityToGroup, tags, deleted,
                   nextHandle, untouched, retry, handlers, nreq, calls, groupMsgs>>

\* ---------------------------------------------------------------- calls
\* One suspended handler invocation.  world.deleteAsset has been invoked on
\* entities[1..i]; the call for entities[i] has not returned yet.  since notes
\* what has happened to the player's list after a player invocation read it,
\* retried the put-back entities (and later spawns) that were due when it did.
NewCall(kind, req, key, entities) ==
    [kind |-> kind, req |-> req, key |-> key, entities |-> entities,
     i |-> 1, count |-> 0, failed |-> <<>>, since |-> "nothing", retried |-> {}]

\* mutant: a removal that throws ends the loop over the entities
Advance_Abort(r, ok) ==
    [r EXCEPT !.count = IF ok THEN @ + 1 ELSE @,
              !.failed = IF ok THEN @ ELSE Append(@, r.entities[r.i]),
              !.i = IF ok THEN @ + 1 ELSE Len(r.entities) + 1]

\* the awaited deleteAsset returned (ok) or threw (~ok): despawnCount++ or
\* failedEntities.push(entity), then on to the next entity of the loop
Advance(r, ok) ==
    [r EXCEPT !.count = IF ok THEN @ + 1 ELSE @,
              !.failed = IF ok THEN @ ELSE Append(@, r.entities[r.i]),
              !.i = @ + 1]

\* the loop over entities has run out
Finished(r) == r.i > Len(r.entities)

\* the result event a finished invocation sends
ResultOf(r) == Result(r.kind, r.key, r.count, Len(r.failed), r.req, r.entities)

\* calls without its c-th element
RemoveAt(s, c) == [j \in 1..(Len(s) - 1) |-> IF j < c THEN s[j] ELSE s[j + 1]]

\* world.deleteAsset(e) resolved: the entity is gone from the world
DeleteAsset(d, e, ok) == IF ok THEN d \cup {e} ELSE d

\* entities a request has read, named or written over are no longer untouched
Touch(u, entities) == [e \in (DOMAIN u) \ Range(entities) |-> u[e]]

\* ------------------------------------------ requestDespawnEvent (by player)
\* mutant: the failed entities are not put back
RestoreFailed_Drop(m, playerId, failed) == m

\* if (failedEntities.length > 0) spawnedEntities.set(playerId, failedEntities)
RestoreFailed(m, playerId, failed) ==
    IF failed # <<>> THEN MapSet(m, playerId, failed) ELSE m

\* listeners connected once one more invocation of the player listener has
\* reached lines 192 and 226, n pairs being connected before
RegisterListeners(n) == n + 1

\* the listener up to its first `await this.world.deleteAsset(entity)`, or to
\* its end when the player has no tracked entity
PlayerDespawn(p) ==
    /\ nreq < MaxRequests
    /\ nreq' = nreq + 1
    /\ LET entities == getPlayerSpawnedEntities(spawnedEntities, p)
           req == Request("player", p)
       IN /\ spawnedEntities' = clearPlayerEntities(spawnedEntities, p)
          /\ untouched' = Touch(untouched, entities)
          /\ retry' = [retry EXCEPT ![p] = {}]
          /\ IF entities = <<>>
             THEN /\ out' = Result("player", p, 0, 0, req, <<>>)
                  /\ handlers' = RegisterListeners(handlers)
                  /\ UNCHANGED calls
             ELSE /\ calls' = Append(calls,
                               [NewCall("player", req, p, entities)
                                   EXCEPT !.retried = retry[p]])
                  /\ out' = NoResult
                  /\ UNCHANGED handlers
    /\ UNCHANGED <<groupEntities, entityToGroup, tags, deleted, nextHandle,
                   groupMsgs>>

\* the listener from the return of an awaited deleteAsset to the next await
\* or to its end, where it registers the group and entity listeners
PlayerResume(c, ok) ==
    /\ c \in DOMAIN calls
    /\ calls[c].kind = "player"
    /\ LET r == Advance(calls[c], ok)
           restored == [j \in DOMAIN calls |->
                          IF /\ r.failed # <<>>
                             /\ calls[j].kind = "player"
                             /\ calls[j].key = r.key
                             /\ calls[j].since = "nothing"
                          THEN [calls[j] EXCEPT !.since = "restored"]
                          ELSE calls[j]]
       IN /\ deleted' = DeleteAsset(deleted, calls[c].entities[calls[c].i], ok)
          /\ IF Finished(r)
             THEN /\ spawnedEntities' = RestoreFailed(spawnedEntities, r.key, r.failed)
                  /\ untouched' =
                        IF r.failed # <<>>
                        THEN Touch(untouched,
                                   getPlayerSpawnedEntities(spawnedEntities, r.key))
                        ELSE untouched
                  /\ retry' = IF r.failed # <<>>
                              THEN [retry EXCEPT ![r.key] = Range(r.failed)]
                              ELSE retry
                  /\ out' = ResultOf(r)
                  /\ handlers' = RegisterListeners(handlers)
                  /\ calls' = RemoveAt(restored, c)
             ELSE /\ calls' = [calls EXCEPT ![c] = r]
                  /\ out' = NoResult
                  /\ UNCHANGED <<spawnedEntities, handlers, untouched, retry>>
    /\ UNCHANGED <<groupEntities, entityToGroup, tags, nextHandle, nreq, groupMsgs>>

\* ------------------------------------------- requestDespawnGroupEvent
\* groupEntities.get(groupId) ?? []
GroupMembers(m, groupId) == MapGet(m, groupId, <<>>)

\* groupEntities.delete(groupId)
TakeGroup(m, groupId) == MapDelete(m, groupId)

\* mutant: the reverse index keeps the taken group's entities
TakeReverse_Keep(m, entities) == m

\* for (const e of entities) entityToGroup.delete(e.id)
TakeReverse(m, entities) == [e \in (DOMAIN m) \ Range(entities) |-> m[e]]

\* mutant: the players' lists keep the group's entities
PruneGroup_Skip(m, entities) == m

\* spawnedEntities.forEach: drop the group's entities from every player's list
PruneGroup(m, entities) ==
    [pid \in DOMAIN m |-> Filter(m[pid], Handles \ Range(entities))]

\* one requestDespawnGroupEvent reaching the `handlers` connected listeners
\* in turn: the first reads and removes the group and suspends on its first
\* deleteAsset; the others (and the first, when there is no such group) find
\* no entity, run to their end and send a zero result
DeliverGroup(req, groupId) ==
    LET entities == GroupMembers(groupEntities, groupId)
    IN IF handlers = 0
       THEN /\ out' = Dropped(req)
            /\ UNCHANGED <<groupEntities, entityToGroup, calls, untouched>>
       ELSE /\ groupEntities' = TakeGroup(groupEntities, groupId)
            /\ entityToGroup' = TakeReverse(entityToGroup, entities)
            /\ untouched' = Touch(untouched, entities)
            /\ IF entities = <<>>
               THEN /\ UNCHANGED calls
                    /\ out' = Result("group", groupId, 0, 0, req, <<>>)
               ELSE /\ calls' = Append(calls, NewCall("group", req, groupId, entities))
                    /\ out' = IF handlers > 1
                              THEN Result("group", groupId, 0, 0, req, <<>>)
                              ELSE NoResult

\* a requestDespawnGroupEvent sent by a despawn zone
GroupDespawn(g) ==
    /\ nreq < MaxRequests
    /\ nreq' = nreq + 1
    /\ DeliverGroup(Request("group", g), g)
    /\ UNCHANGED <<spawnedEntities, tags, deleted, nextHandle, retry, handlers,
                   groupMsgs>>

\* a requestDespawnGroupEvent sent by the entity listener (delegation)
GroupDelegated(msg) ==
    /\ BagIn(msg, groupMsgs)
    /\ DeliverGroup(msg.req, msg.groupId)
    /\ groupMsgs' = groupMsgs (-) SetToBag({msg})
    /\ UNCHANGED <<spawnedEntities, tags, deleted, nextHandle, retry, handlers,
                   nreq>>

\* the group listener from the return of an awaited deleteAsset to the next
\* await or to its end
GroupResume(c, ok) ==
    /\ c \in DOMAIN calls
    /\ calls[c].kind = "group"
    /\ LET r == Advance(calls[c], ok)
       IN /\ deleted' = DeleteAsset(deleted, calls[c].entities[calls[c].i], ok)
          /\ IF Finished(r)
             THEN /\ spawnedEntities' = PruneGroup(spawnedEntities, r.entities)
                  /\ out' = ResultOf(r)
                  /\ calls' = RemoveAt(calls, c)
             ELSE /\ calls' = [calls EXCEPT ![c] = r]
                  /\ out' = NoResult
                  /\ UNCHANGED spawnedEntities
    /\ UNCHANGED <<groupEntities, entityToGroup, tags, nextHandle, untouched,
                   retry, handlers, nreq, groupMsgs>>

\* ---------------------------------------- requestDespawnByEntityEvent
\* spawnedEntities.forEach: set(pid, list.filter(e => e.id !== entityId))
PruneEntity(m, entityId) ==
    [pid \in DOMAIN m |-> Filter(m[pid], Handles \ {entityId})]

\* mutant: a listener that has resolved a group re-broadcasts and then goes on
\* to its own deleteAsset
EntityDespawn_Both(e) ==
    /\ e \in (1..(nextHandle - 1)) \cup {Foreign}
    /\ nreq < MaxRequests
    /\ nreq' = nreq + 1
    /\ LET req == Request("entity", e)
           gid == ResolveGroup(e)
       IN IF handlers = 0
          THEN /\ out' = Dropped(req)
               /\ UNCHANGED <<calls, groupMsgs, untouched>>
          ELSE /\ out' = NoResult
               /\ untouched' = Touch(untouched, <<e>>)
               /\ groupMsgs' = IF gid # NoGroup
                               THEN groupMsgs (+)
                                    [m \in {[groupId |-> gid, req |-> req]} |-> handlers]
                               ELSE groupMsgs
               /\ calls' = calls \o
                     [j \in 1..handlers |-> NewCall("entity", req, e, <<e>>)]
    /\ UNCHANGED <<spawnedEntities, groupEntities, entityToGroup, tags, deleted,
                   nextHandle, retry, handlers>>

\* one requestDespawnByEntityEvent reaching the `handlers` connected
\* listeners: each resolves the group and either re-broadcasts a group
\* request and returns, or invokes deleteAsset on the entity itself
EntityDespawn(e) ==
    /\ e \in (1..(nextHandle - 1)) \cup {Foreign}
    /\ nreq < MaxRequests
    /\ nreq' = nreq + 1
    /\ LET req == Request("entity", e)
           gid == ResolveGroup(e)
       IN IF handlers = 0
          THEN /\ out' = Dropped(req)
               /\ UNCHANGED <<calls, groupMsgs, untouched>>
          ELSE /\ out' = NoResult
               /\ untouched' = Touch(untouched, <<e>>)
               /\ IF gid # NoGroup
                  THEN /\ groupMsgs' = groupMsgs (+)
                             [m \in {[groupId |-> gid, req |-> req]} |-> handlers]
                       /\ UNCHANGED calls
                  ELSE /\ calls' = calls \o
                             [j \in 1..handlers |-> NewCall("entity", req, e, <<e>>)]
                       /\ UNCHANGED groupMsgs
    /\ UNCHANGED <<spawnedEntities, groupEntities, entityToGroup, tags, deleted,
                   nextHandle, retry, handlers>>

\* the entity listener from the return of its deleteAsset to its end
EntityResume(c, ok) ==
    /\ c \in DOMAIN calls
    /\ calls[c].kind = "entity"
    /\ LET r == Advance(calls[c], ok)
       IN /\ deleted' = DeleteAsset(deleted, r.key, ok)
          /\ spawnedEntities' = IF ok THEN PruneEntity(spawnedEntities, r.key)
                                ELSE spawnedEntities
          /\ out' = ResultOf(r)
          /\ calls' = RemoveAt(calls, c)
    /\ UNCHANGED <<groupEntities, entityToGroup, tags, nextHandle, untouched,
                   retry, handlers, nreq, groupMsgs>>

\* -------------------------------------------------- SpawnBuggyDespawnZone
\* OnEntityEnterTrigger of a despawn zone for an entity that passes the tag
\* filter.  The zone broadcasts requestDespawnByEntityEvent, which the
\* connected entity listeners handle as in EntityDespawn, and then, when the
\* entity carries a gid tag, requestDespawnGroupEvent for that id, which the
\* connected group listeners handle as in DeliverGroup.  An entity with a
\* readable gid tag always resolves to a group, so the entity listeners
\* delegate in that case.
ZoneEnter(e) ==
    /\ e \in ((1..(nextHandle - 1)) \ deleted) \cup {Foreign}
    /\ nreq < MaxRequests
    /\ nreq' = nreq + 1
    /\ LET req == Request("entity", e)
           gid == ResolveGroup(e)
           zoneGid == groupIdFromEntityTags(e)
           zoneReq == Request("zone", e)
           entities == GroupMembers(groupEntities, zoneGid)
           delegated == [m \in {[groupId |-> gid, req |-> req]} |-> handlers]
       IN IF handlers = 0
          THEN /\ out' = Dropped(req)
               /\ UNCHANGED <<groupEntities, entityToGroup, calls, groupMsgs,
                              untouched>>
          ELSE IF zoneGid = NoGroup
          THEN /\ out' = NoResult
               /\ untouched' = Touch(untouched, <<e>>)
               /\ IF gid # NoGroup
                  THEN /\ groupMsgs' = groupMsgs (+) delegated
                       /\ UNCHANGED calls
                  ELSE /\ calls' = calls \o
                             [j \in 1..handlers |-> NewCall("entity", req, e, <<e>>)]
                       /\ UNCHANGED groupMsgs
               /\ UNCHANGED <<groupEntities, entityToGroup>>
          ELSE /\ groupMsgs' = groupMsgs (+) delegated
               /\ groupEntities' = TakeGroup(groupEntities, zoneGid)
               /\ entityToGroup' = TakeReverse(entityToGroup, entities)
               /\ untouched' = Touch(Touch(untouched, <<e>>), entities)
               /\ IF entities = <<>>
                  THEN /\ UNCHANGED calls
                       /\ out' = Result("group", zoneGid, 0, 0, zoneReq, <<>>)
                  ELSE /\ calls' = Append(calls,
                                      NewCall("group", zoneReq, zoneGid, entities))
                       /\ out' = IF handlers > 1
                                 THEN Result("group", zoneGid, 0, 0, zoneReq, <<>>)
                                 ELSE NoResult
    /\ UNCHANGED <<spawnedEntities, tags, deleted, nextHandle, retry, handlers>>

\* a spawn, with a note of the spawn each new entity came from: the first
\* entity of the array spawnAsset resolved to
ZoneSpawn(p, n, gid, tagged) ==
    /\ handleSpawnRequest(p, n, gid, tagged)
    /\ spawnOf' = spawnOf \o [i \in 1..n |-> nextHandle]

\* ------------------------------------------------------------ TriggerLogic
\* The two scripts are attached to different entities: SpawnUI to a Custom UI
\* gizmo, TriggerLogic to a trigger gizmo whose spawnUI prop refers to the
\* former.
SpawnUIEntity == "custom UI gizmo"
TriggerEntity == "trigger gizmo"

\* texts of the TextGizmo, as tuples of their parts
originalGizmoText == <<"original text">>
DespawningText == <<"Despawning Buggy">>

\* `Player ${data.playerId}: Despawned ${data.count} entities, ${data.failedCount} failed`
ResultText(data) ==
    <<"Player ", data.playerId, ": Despawned ", data.count, " entities, ",
      data.failedCount, " failed">>

\* the entities on which a listener for despawnResultEvent is connected:
\* TriggerLogic's connectNetworkEvent(this.entity, despawnResultEvent, ...)
ResultListeners == {TriggerEntity}

\* sendNetworkEvent(this.entity, despawnResultEvent,
\* {playerId, count, failedCount}) in SpawnUI: the event is addressed to
\* SpawnUI's own entity
ResultEvent(o) ==
    [target |-> SpawnUIEntity, playerId |-> o.key[2], count |-> o.count,
     failedCount |-> o.failedCount]

\* the TriggerLogic state once the player listener of SpawnUI has produced
\* result o (if it has finished) in the step
Sent(t, o) ==
    IF o.key[1] = "player"
    THEN [t EXCEPT !.results = @ \cup {ResultEvent(o)}]
    ELSE t

\* TriggerLogic after start(): the gizmo shows its original text, no player
\* is in the trigger, no result event is in flight
InitTrigger == [text |-> originalGizmoText, inside |-> {}, results |-> {}]

\* OnPlayerEnterTrigger: the text is set, requestDespawnEvent is broadcast
\* and SpawnUI's player listener runs to its first await or to its end
PlayerEnterTrigger(p) ==
    /\ p \notin trigger.inside
    /\ PlayerDespawn(p)
    /\ trigger' = Sent([trigger EXCEPT !.text = DespawningText,
                                       !.inside = @ \cup {p}], out')

\* OnPlayerExitTrigger: the text is reset to the original text
PlayerExitTrigger(p) ==
    /\ p \in trigger.inside
    /\ trigger' = [trigger EXCEPT !.text = originalGizmoText,
                                  !.inside = @ \ {p}]
    /\ UNCHANGED spawnVars

\* OnPlayerExitWorld: requestDespawnEvent is broadcast
PlayerExitWorld(p) ==
    /\ PlayerDespawn(p)
    /\ trigger' = Sent([trigger EXCEPT !.inside = @ \ {p}], out')

\* SpawnUI's player listener resumes; at its end it sends the result
PlayerResumeSend(c, ok) ==
    /\ PlayerResume(c, ok)
    /\ trigger' = Sent(trigger, out')

\* a despawnResultEvent in flight arrives at its target entity: a listener
\* connected on that entity handles it (TriggerLogic sets the gizmo text),
\* and without a listener there the event is lost
DeliverResult(m) ==
    /\ m \in trigger.results
    /\ trigger' = [trigger EXCEPT
                      !.results = @ \ {m},
                      !.text = IF m.target \in ResultListeners
                               THEN ResultText(m) ELSE @]
    /\ UNCHANGED spawnVars

\* --------------------------------------------------------------- TourBuggy
\* Buggy k is the TourBuggy component on the entity with id k.  The last
\* buggy sits on a container and has moveEntity set to the entity with id
\* MaxBuggies + 1; the others have no moveEntity.  position and rotation are
\* those of the mover.
Buggies == 1..MaxBuggies

\* this.target = this.props.moveEntity ?? this.entity
MoverOf(id) == IF id = MaxBuggies THEN MaxBuggies + 1 ELSE id

\* targetEntityId of an event: undefined, a buggy, or an entity without a
\* TourBuggy
NoTarget == 0
Targets == {NoTarget} \cup (1..(MaxBuggies + 1))

\* hz.Vec3 with integer coordinates
Vec3(x, y, z) == <<x, y, z>>
VecAdd(a, b) == <<a[1] + b[1], a[2] + b[2], a[3] + b[3]>>

\* worldTravelDir = undefined; initialPosition = null; initialRotation = null
NoDir == Vec3(0, 0, 0)
NullPosition == <<>>
NullRotation == [kind |-> "null", forward |-> NoDir]

\* the rotation the mover is placed with, and Quaternion.lookRotation(forward)
\* times the model-forward correction
PlacedRotation == [kind |-> "placed", forward |-> NoDir]
FacingRotation(forward) == [kind |-> "facing", forward |-> forward]

\* axis texts the guidance triggers are configured with; "" is a missing text
TravelAxes == {"x"}
FaceAxes == {"", "x"}

\* the named axes of parseAxisToWorldDir; any other text without three
\* numbers is the default +Z
parseAxisToWorldDir(s) ==
    CASE s = "x" -> Vec3(1, 0, 0)
      [] s = "-x" -> Vec3(-1, 0, 0)
      [] s = "y" -> Vec3(0, 1, 0)
      [] s = "-y" -> Vec3(0, -1, 0)
      [] s = "z" -> Vec3(0, 0, 1)
      [] s = "-z" -> Vec3(0, 0, -1)
      [] OTHER -> Vec3(0, 0, 1)

\* Quaternion.mulVec3(rot, local) for the configured axis 'z', local +Z: the
\* placed rotation leaves it, a facing rotation (lookRotation times a -90
\* degree turn about X) takes it to world +Y
mulVec3(rot, local) ==
    IF rot.kind = "facing" THEN Vec3(0, 1, 0) ELSE local

moveVector(b) ==
    IF b.worldTravelDir # NoDir THEN b.worldTravelDir
    ELSE mulVec3(b.rotation, Vec3(0, 0, 1))

faceAlongWorldDir(b, targetWorldDir) ==
    [b EXCEPT !.rotation = FacingRotation(targetWorldDir)]

\* a TourBuggy after construction, its mover placed at the origin; tourStart
\* notes the transform the mover had when the tour in progress (running or
\* paused) was started
NewBuggy ==
    [paused |-> FALSE, running |-> FALSE, kinematicVel |-> NoDir,
     worldTravelDir |-> NoDir, initialPosition |-> NullPosition,
     initialRotation |-> NullRotation, position |-> Vec3(0, 0, 0),
     rotation |-> PlacedRotation,
     tourStart |-> [position |-> NullPosition, rotation |-> NullRotation]]

startMotion(b) ==
    [b EXCEPT !.initialPosition = IF ~b.running THEN b.position ELSE @,
              !.initialRotation = IF ~b.running THEN b.rotation ELSE @,
              !.running = TRUE,
              !.paused = FALSE,
              !.tourStart = IF ~b.running /\ ~b.paused
                            THEN [position |-> b.position, rotation |-> b.rotation]
                            ELSE @]

\* mutant: a hard stop drops the travel direction override
stopMotion_ClearsOverride(b) ==
    LET reset == b.initialPosition # NullPosition /\ b.initialRotation # NullRotation
    IN [b EXCEPT !.running = FALSE,
                 !.kinematicVel = NoDir,
                 !.paused = FALSE,
                 !.worldTravelDir = NoDir,
                 !.position = IF reset THEN b.initialPosition ELSE @,
                 !.rotation = IF reset THEN b.initialRotation ELSE @]

stopMotion(b) ==
    LET reset == b.initialPosition # NullPosition /\ b.initialRotation # NullRotation
    IN [b EXCEPT !.running = FALSE,
                 !.kinematicVel = NoDir,
                 !.paused = FALSE,
                 !.position = IF reset THEN b.initialPosition ELSE @,
                 !.rotation = IF reset THEN b.initialRotation ELSE @]

\* one frame, deltaTime long enough for the smoothing to have settled
\* (alpha = 1) and speed * deltaTime one unit
onUpdate(b) ==
    IF ~b.running \/ b.paused THEN b
    ELSE [b EXCEPT !.kinematicVel = moveVector(b),
                   !.position = VecAdd(@, moveVector(b))]

\* mutant: the target of an event is not looked at
Addressed_Any(targetEntityId, id) == TRUE

\* not (targetEntityId && targetEntityId !== this.entity.id)
Addressed(targetEntityId, id) ==
    ~(targetEntityId # NoTarget /\ targetEntityId # id)

\* mutant: the UI pause leaves running as it is
ApplyControl_PauseRunning(b, action, pause) ==
    IF action = "start" THEN startMotion(b)
    ELSE IF pause
         THEN [b EXCEPT !.paused = TRUE, !.kinematicVel = NoDir]
         ELSE stopMotion(b)

\* the TourControlEvent listener past its target check
ApplyControl(b, action, pause) ==
    IF action = "start" THEN startMotion(b)
    ELSE IF pause
         THEN [b EXCEPT !.paused = TRUE, !.running = FALSE, !.kinematicVel = NoDir]
         ELSE stopMotion(b)

\* the TourPathEvent listener past its target check
ApplyPath(b, travelAxis, faceAxis, stop) ==
    IF stop THEN stopMotion(b)
    ELSE LET travel == parseAxisToWorldDir(travelAxis)
             face == IF faceAxis # "" THEN parseAxisToWorldDir(faceAxis) ELSE travel
         IN [faceAlongWorldDir(b, face) EXCEPT !.worldTravelDir = travel,
                                              !.kinematicVel = NoDir]

\* a TourControlEvent is broadcast: the listener of every TourBuggy runs
TourControl(action, pause, targetEntityId) ==
    /\ buggies' = [id \in Buggies |->
                      IF Addressed(targetEntityId, id)
                      THEN ApplyControl(buggies[id], action, pause)
                      ELSE buggies[id]]
    /\ UNCHANGED <<spawnVars, spawnOf, codec, trigger>>

\* a TourPathEvent is broadcast: the listener of every TourBuggy runs
TourPath(travelAxis, faceAxis, stop, targetEntityId) ==
    /\ buggies' = [id \in Buggies |->
                      IF Addressed(targetEntityId, id)
                      THEN ApplyPath(buggies[id], travelAxis, faceAxis, stop)
                      ELSE buggies[id]]
    /\ UNCHANGED <<spawnVars, spawnOf, codec, trigger>>

\* the mover of buggy id enters a trigger that carries the stop tag
\* (enteredBy === this.target)
StopTrigger(id) ==
    /\ buggies' = [buggies EXCEPT ![id] = stopMotion(@)]
    /\ UNCHANGED <<spawnVars, spawnOf, codec, trigger>>

\* World.onUpdate: the onUpdate of every TourBuggy runs; frames are taken
\* while the movers stay within MaxPos of the origin
Update ==
    /\ \A id \in Buggies : \A k \in 1..3 : onUpdate(buggies[id]).position[k] <= MaxPos
    /\ buggies' = [id \in Buggies |-> onUpdate(buggies[id])]
    /\ UNCHANGED <<spawnVars, spawnOf, codec, trigger>>

\* ------------------------------------------------- GuidanceTrigger, TourBuggyUI
\* texts the travelAxis prop of a guidance trigger is set to; "" is the default
GuidanceAxes == TravelAxes \cup {""}

\* the mover of buggy id has entered a guidance trigger with these props;
\* id 0 when the last step was no such entry
Entry(id, stop, travelAxis, faceAxis) ==
    [id |-> id, stop |-> stop, travelAxis |-> travelAxis, faceAxis |-> faceAxis]

NoEntry == Entry(0, FALSE, "", "")

\* handleEntityEnter: the mover of buggy id enters a guidance trigger; the
\* event sent carries targetEntityId: enteredBy.id, and no pause
GuidanceEntityEnter(id, stop, travelAxis, faceAxis) ==
    IF stop THEN TourControl("stop", FALSE, MoverOf(id))
    ELSE IF travelAxis # "" THEN TourPath(travelAxis, faceAxis, FALSE, MoverOf(id))
    ELSE UNCHANGED <<spawnVars, spawnOf, codec, trigger, buggies>>

\* handlePlayerEnter: a player enters a guidance trigger; the event sent
\* carries no target
GuidancePlayerEnter(stop, travelAxis, faceAxis) ==
    IF stop THEN TourControl("stop", FALSE, NoTarget)
    ELSE IF travelAxis # "" THEN TourPath(travelAxis, faceAxis, FALSE, NoTarget)
    ELSE UNCHANGED <<spawnVars, spawnOf, codec, trigger, buggies>>

\* the buggy prop of the TourBuggyUI: the entity of buggy 1
UIBuggy == 1

\* TourBuggyUI.start with startRunning at its default: running.set(false)
InitUI == [p \in Players |-> FALSE]

\* onToggle: player p presses the button; the binding's value for that
\* player is negated and the event for the new value is sent to the buggy
onToggle(p) ==
    LET newVal == ~ui[p]
    IN /\ ui' = [ui EXCEPT ![p] = newVal]
       /\ TourControl(IF newVal THEN "start" ELSE "stop", ~newVal, UIBuggy)

\* ------------------------------------------------------------ group tag codec
\* Text is a sequence of one-character strings.  A group id is the base-36
\* text of n = Math.floor(Math.random() * 0xFFFFFFFF), an integer of up to 32
\* bits, kept here as two 16-bit limbs <<hi, lo>>, n = hi * 2^16 + lo.
LimbBase == 2 ^ 16

Base36Digits ==
    <<"0", "1", "2", "3", "4", "5", "6", "7", "8", "9", "a", "b", "c", "d",
      "e", "f", "g", "h", "i", "j", "k", "l", "m", "n", "o", "p", "q", "r",
      "s", "t", "u", "v", "w", "x", "y", "z">>

Radix == Len(Base36Digits)

\* limb values the codec is run on: the ends of the range and the values
\* around the powers of 36
SampleLimbs == {0, 1, Radix - 1, Radix, Radix ^ 2 - 1, Radix ^ 2, Radix ^ 3 - 1,
                Radix ^ 3, LimbBase - 2, LimbBase - 1}

\* the values Math.floor(Math.random() * 0xFFFFFFFF) can take: 0 .. 2^32 - 2
RandomIds ==
    {n \in SampleLimbs \X SampleLimbs : n # <<LimbBase - 1, LimbBase - 1>>}

RECURSIVE ToString36(_, _)
\* Number.prototype.toString(36) of hi * 2^16 + lo, by long division
ToString36(hi, lo) ==
    LET t == (hi % Radix) * LimbBase + lo
    IN IF hi = 0 /\ lo < Radix
       THEN <<Base36Digits[lo + 1]>>
       ELSE ToString36(hi \div Radix, t \div Radix)
               \o <<Base36Digits[(t % Radix) + 1]>>

\* generateGroupId for the random integer n
generateGroupId(n) == ToString36(n[1], n[2])

buggyTag == <<"b", "u", "g", "g", "y">>
GidPrefix == <<"g", "i", "d", ":">>
MaxTagLen == 20

\* String.prototype.startsWith
StartsWith(t, prefix) ==
    Len(t) >= Len(prefix) /\ SubSeq(t, 1, Len(prefix)) = prefix

\* String.prototype.slice(from) / slice(0, to)
SliceFrom(t, from) == SubSeq(t, from + 1, Len(t))
SliceTo(t, to) == SubSeq(t, 1, IF Len(t) < to THEN Len(t) ELSE to)

\* mutant: the tag is cut to 8 characters
safeTag_Short(gid) == SliceTo(GidPrefix \o gid, 8)

\* const gidTag = `gid:${gid}`; gidTag.length > 20 ? gidTag.slice(0, 20) : gidTag
safeTag(gid) ==
    IF Len(GidPrefix \o gid) > MaxTagLen
    THEN SliceTo(GidPrefix \o gid, MaxTagLen)
    ELSE GidPrefix \o gid

\* tagSpawnGroup on one entity without tags: tags.add(buggyTag), tags.add(safeTag)
TagsWritten(gid) == <<buggyTag, safeTag(gid)>>

RECURSIVE FindGidTag(_)
\* the first tag that starts with 'gid:', or <<>> when there is none
FindGidTag(ts) ==
    IF ts = <<>> THEN <<>>
    ELSE IF StartsWith(Head(ts), GidPrefix) THEN Head(ts)
         ELSE FindGidTag(Tail(ts))

NoText == <<"null">>

\* groupIdFromEntityTags on the tag texts: t.slice(4) of the first 'gid:' tag
DecodeGroupId(ts) ==
    IF FindGidTag(ts) = <<>> THEN NoText
    ELSE SliceFrom(FindGidTag(ts), Len(GidPrefix))

\* SpawnBuggyDespawnZone: tags.find(t => t.startsWith('gid:')), gidTag.slice(4)
ZoneDecodeGroupId(ts) ==
    IF FindGidTag(ts) = <<>> THEN NoText
    ELSE SliceFrom(FindGidTag(ts), 4)

\* one run of the codec: the random integer, the id made of it, the tags
\* written on an entity, the id read back by SpawnUI and by a despawn zone
CodecRun(phase, n, gid, entityTags, decoded, zoneDecoded) ==
    [phase |-> phase, n |-> n, gid |-> gid, entityTags |-> entityTags,
     decoded |-> decoded, zoneDecoded |-> zoneDecoded]

NoCodecRun == CodecRun("none", <<0, 0>>, <<>>, <<>>, NoText, NoText)

CodecGenerate ==
    /\ codec.phase = "random"
    /\ codec' = [codec EXCEPT !.phase = "generated",
                              !.gid = generateGroupId(codec.n)]

CodecTag ==
    /\ codec.phase = "generated"
    /\ codec' = [codec EXCEPT !.phase = "tagged",
                              !.entityTags = TagsWritten(codec.gid)]

CodecDecode ==
    /\ codec.phase = "tagged"
    /\ codec.decoded = NoText
    /\ codec' = [codec EXCEPT !.decoded = DecodeGroupId(codec.entityTags)]

CodecZoneDecode ==
    /\ codec.phase = "tagged"
    /\ codec.zoneDecoded = NoText
    /\ codec' = [codec EXCEPT !.zoneDecoded = ZoneDecodeGroupId(codec.entityTags)]

\* ------------------------------------------------------------ specification
InitSpawnUI ==
    /\ spawnedEntities = EmptyMap
    /\ groupEntities = EmptyMap
    /\ entityToGroup = EmptyMap
    /\ tags = EmptyMap
    /\ deleted = {}
    /\ nextHandle = 1
    /\ untouched = EmptyMap
    /\ retry = [p \in Players |-> {}]
    /\ handlers = 0
    /\ nreq = 0
    /\ calls = <<>>
    /\ groupMsgs = EmptyBag
    /\ out = NoResult
    /\ errorMessage = ""
    /\ pendingSpawns = [p \in Players |-> 0]
    /\ spawnOf = <<>>

\* the components a specification leaves at rest
\* ------------------------------------------------ SpawnBuggyDespawnZone
\* values of the objectTag prop: empty, the default 'buggy', another tag
carTag == <<"c", "a", "r">>
ObjectTags == {<<>>, buggyTag, carTag}

\* the tag lists of the entities that drive into the zone
sampleGidTag == GidPrefix \o <<"a", "1">>
EntityTagLists ==
    {<<>>, <<buggyTag>>, <<sampleGidTag>>, <<carTag>>,
     <<buggyTag, sampleGidTag>>, <<sampleGidTag, buggyTag>>,
     <<carTag, sampleGidTag>>, <<buggyTag, carTag>>}

originalText == "Return zone"
ReturnedText == "Buggy returned"

\* payloads of the two events the zone broadcasts
ByEntityRequest(entityId) ==
    [event |-> "requestDespawnByEntityEvent", entityId |-> entityId, groupId |-> <<>>]
ByGroupRequest(gid) ==
    [event |-> "requestDespawnGroupEvent", entityId |-> 0, groupId |-> gid]

\* mutant: the zone acts on every entering entity
Filtered_Never(objectTag, entityTags) == FALSE

\* if (tag && !entering.tags.contains(tag)) return;
Filtered(objectTag, entityTags) ==
    objectTag # <<>> /\ objectTag \notin Range(entityTags)

\* the events one run of the OnEntityEnterTrigger callback broadcasts
ZoneRequests(objectTag, entityId, entityTags) ==
    IF Filtered(objectTag, entityTags) THEN <<>>
    ELSE <<ByEntityRequest(entityId)>> \o
         (IF FindGidTag(entityTags) # <<>>
          THEN <<ByGroupRequest(ZoneDecodeGroupId(entityTags))>>
          ELSE <<>>)

\* if (tg) tg.text.set('Buggy returned')
ZoneText(objectTag, entityTags, feedbackText, text) ==
    IF ~Filtered(objectTag, entityTags) /\ feedbackText THEN ReturnedText ELSE text

\* a zone after start(): its props, the text of the feedback gizmo, and of
\* the last callback run the entity (0: none yet), its tags, the text the
\* gizmo showed before and the events broadcast
NewZone(objectTag, feedbackText) ==
    [objectTag |-> objectTag, feedbackText |-> feedbackText, text |-> originalText,
     entering |-> 0, enteringTags |-> <<>>, before |-> originalText, sent |-> <<>>]

\* CodeBlockEvents.OnEntityEnterTrigger with the entity entering
OnEntityEnterTrigger(entityId, entityTags) ==
    /\ zone' = [zone EXCEPT
                  !.entering = entityId,
                  !.enteringTags = entityTags,
                  !.before = zone.text,
                  !.sent = ZoneRequests(zone.objectTag, entityId, entityTags),
                  !.text = ZoneText(zone.objectTag, entityTags, zone.feedbackText,
                                    zone.text)]
    /\ UNCHANGED <<spawnVars, spawnOf, codec, trigger, buggies, ui, entered, exited>>

\* dispose() sets the gizmo's text back, and the zone is started again: the
\* record of the last callback run is dropped
ZoneTextReset ==
    /\ zone.text # originalText
    /\ zone' = [NewZone(zone.objectTag, zone.feedbackText) EXCEPT !.text = originalText]
    /\ UNCHANGED <<spawnVars, spawnOf, codec, trigger, buggies, ui, entered, exited>>

\* no player has left the world
InitExited == [p \in Players |-> "no"]

\* what the result o of a player listener run tells about the exit despawn
\* of its player: despawnResultEvent { despawnCount, failedCount }
Exited(x, o) ==
    IF o.key[1] = "player"
    THEN [x EXCEPT ![o.key[2]] = IF o.failedCount = 0 THEN "done" ELSE "failed"]
    ELSE x

InitOthers ==
    /\ trigger = InitTrigger
    /\ buggies = [id \in Buggies |-> NewBuggy]
    /\ ui = InitUI
    /\ entered = NoEntry
    /\ exited = InitExited

Init ==
    /\ InitSpawnUI
    /\ codec = NoCodecRun
    /\ InitOthers
    /\ zone = NewZone(buggyTag, TRUE)

\* the despawn handlers, with every spawn taken as one step from the button
\* click to the end of handleSpawnRequest (an asset is configured and
\* spawnAsset succeeds)
Next ==
    \/ \E p \in Players, n \in 0..MaxSpawnSize, gid \in GroupIds,
          tagged \in SUBSET Handles :
          handleSpawnRequest(p, n, gid, tagged) /\ UNCHANGED <<pendingSpawns, others>>
    \/ \E p \in Players :
          PlayerDespawn(p) /\ UNCHANGED <<errorMessage, pendingSpawns, others>>
    \/ \E c \in DOMAIN calls, ok \in BOOLEAN :
          PlayerResume(c, ok) /\ UNCHANGED <<errorMessage, pendingSpawns, others>>
    \/ \E g \in GroupIds :
          GroupDespawn(g) /\ UNCHANGED <<errorMessage, pendingSpawns, others>>
    \/ \E msg \in BagToSet(groupMsgs) :
          GroupDelegated(msg) /\ UNCHANGED <<errorMessage, pendingSpawns, others>>
    \/ \E c \in DOMAIN calls, ok \in BOOLEAN :
          GroupResume(c, ok) /\ UNCHANGED <<errorMessage, pendingSpawns, others>>
    \/ \E e \in Handles \cup {Foreign} :
          EntityDespawn(e) /\ UNCHANGED <<errorMessage, pendingSpawns, others>>
    \/ \E c \in DOMAIN calls, ok \in BOOLEAN :
          EntityResume(c, ok) /\ UNCHANGED <<errorMessage, pendingSpawns, others>>

Spec == Init /\ [][Next]_vars

\* the spawn button with its suspension and its failures, and the player
\* listener
SpawnNext ==
    \/ \E p \in Players : SpawnNoAsset(p) /\ UNCHANGED others
    \/ \E p \in Players : SpawnClick(p) /\ UNCHANGED others
    \/ \E p \in Players, n \in 0..MaxSpawnSize, gid \in GroupIds,
          tagged \in SUBSET Handles :
          SpawnResolved(p, n, gid, tagged) /\ UNCHANGED others
    \/ \E p \in Players : SpawnRejected(p) /\ UNCHANGED others
    \/ \E p \in Players :
          PlayerDespawn(p) /\ UNCHANGED <<errorMessage, pendingSpawns, others>>
    \/ \E c \in DOMAIN calls, ok \in BOOLEAN :
          PlayerResume(c, ok) /\ UNCHANGED <<errorMessage, pendingSpawns, others>>

SpawnSpec == Init /\ [][SpawnNext]_vars

\* spawns, the player listener (which connects the others) and a despawn
\* zone that buggies drive into, for up to MaxZoneRequests requests
ZoneNext ==
    \/ \E p \in Players, n \in 0..MaxSpawnSize, gid \in GroupIds,
          tagged \in SUBSET Handles :
          ZoneSpawn(p, n, gid, tagged)
             /\ UNCHANGED <<pendingSpawns, codec, trigger, buggies, ui, entered, exited, zone>>
    \/ \E p \in Players :
          nreq < MaxZoneRequests /\ PlayerDespawn(p) /\ UNCHANGED <<errorMessage, pendingSpawns, others>>
    \/ \E c \in DOMAIN calls, ok \in BOOLEAN :
          PlayerResume(c, ok) /\ UNCHANGED <<errorMessage, pendingSpawns, others>>
    \/ \E e \in Handles \cup {Foreign} :
          nreq < MaxZoneRequests /\ ZoneEnter(e) /\ UNCHANGED <<errorMessage, pendingSpawns, others>>
    \/ \E msg \in BagToSet(groupMsgs) :
          GroupDelegated(msg) /\ UNCHANGED <<errorMessage, pendingSpawns, others>>
    \/ \E c \in DOMAIN calls, ok \in BOOLEAN :
          GroupResume(c, ok) /\ UNCHANGED <<errorMessage, pendingSpawns, others>>
    \/ \E c \in DOMAIN calls, ok \in BOOLEAN :
          EntityResume(c, ok) /\ UNCHANGED <<errorMessage, pendingSpawns, others>>

ZoneSpec == Init /\ [][ZoneNext]_vars

\* spawns and a TriggerLogic zone that players enter and leave, for up to
\* MaxTriggerRequests requests
TriggerNext ==
    \/ \E p \in Players, n \in 0..MaxSpawnSize, gid \in GroupIds,
          tagged \in SUBSET Handles :
          handleSpawnRequest(p, n, gid, tagged) /\ UNCHANGED <<pendingSpawns, others>>
    \/ \E p \in Players :
          nreq < MaxTriggerRequests /\ PlayerEnterTrigger(p)
             /\ UNCHANGED <<errorMessage, pendingSpawns, spawnOf, codec, buggies, ui, entered, exited, zone>>
    \/ \E p \in Players :
          PlayerExitTrigger(p) /\ UNCHANGED <<spawnOf, codec, buggies, ui, entered, exited, zone>>
    \/ \E p \in Players :
          nreq < MaxTriggerRequests /\ PlayerExitWorld(p)
             /\ UNCHANGED <<errorMessage, pendingSpawns, spawnOf, codec, buggies, ui, entered, exited, zone>>
    \/ \E c \in DOMAIN calls, ok \in BOOLEAN :
          PlayerResumeSend(c, ok)
             /\ UNCHANGED <<errorMessage, pendingSpawns, spawnOf, codec, buggies, ui, entered, exited, zone>>
    \/ \E m \in trigger.results :
          DeliverResult(m) /\ UNCHANGED <<spawnOf, codec, buggies, ui, entered, exited, zone>>

TriggerSpec == Init /\ [][TriggerNext]_vars

\* the tour buggies under control events, path events, stop triggers and
\* frames
BuggyNext ==
    \/ \E action \in {"start", "stop"}, pause \in BOOLEAN, t \in Targets :
          TourControl(action, pause, t) /\ UNCHANGED <<ui, entered, exited, zone>>
    \/ \E travelAxis \in TravelAxes, faceAxis \in FaceAxes, stop \in BOOLEAN,
          t \in Targets :
          TourPath(travelAxis, faceAxis, stop, t) /\ UNCHANGED <<ui, entered, exited, zone>>
    \/ \E id \in Buggies : StopTrigger(id) /\ UNCHANGED <<ui, entered, exited, zone>>
    \/ Update /\ UNCHANGED <<ui, entered, exited, zone>>

BuggySpec == Init /\ [][BuggyNext]_vars

\* a tour: the start/stop button, guidance triggers the movers and the
\* players enter, stop triggers and frames
TourNext ==
    \/ \E p \in Players : onToggle(p) /\ entered' = NoEntry /\ UNCHANGED <<exited, zone>>
    \/ \E id \in Buggies, stop \in BOOLEAN, travelAxis \in GuidanceAxes,
          faceAxis \in FaceAxes :
          /\ GuidanceEntityEnter(id, stop, travelAxis, faceAxis)
          /\ entered' = Entry(id, stop, travelAxis, faceAxis)
          /\ UNCHANGED <<ui, exited, zone>>
    \/ \E stop \in BOOLEAN, travelAxis \in GuidanceAxes, faceAxis \in FaceAxes :
          /\ GuidancePlayerEnter(stop, travelAxis, faceAxis)
          /\ entered' = NoEntry
          /\ UNCHANGED <<ui, exited, zone>>
    \/ \E id \in Buggies : StopTrigger(id) /\ entered' = NoEntry /\ UNCHANGED <<ui, exited, zone>>
    \/ Update /\ entered' = NoEntry /\ UNCHANGED <<ui, exited, zone>>

TourSpec == Init /\ [][TourNext]_vars

\* players who press the spawn button and leave the world: OnPlayerExitWorld
\* broadcasts requestDespawnEvent for the player, once; each spawnAsset call
\* in flight returns or throws whenever the platform finishes it
ExitNext ==
    \/ \E p \in Players :
          /\ exited[p] = "no"
          /\ SpawnClick(p)
          /\ UNCHANGED others
    \/ \E p \in Players, n \in 0..MaxSpawnSize, gid \in GroupIds,
          tagged \in SUBSET Handles :
          SpawnResolved(p, n, gid, tagged) /\ UNCHANGED others
    \/ \E p \in Players : SpawnRejected(p) /\ UNCHANGED others
    \/ \E p \in Players :
          /\ exited[p] = "no"
          /\ PlayerExitWorld(p)
          /\ exited' = Exited([exited EXCEPT ![p] = "pending"], out')
          /\ UNCHANGED <<errorMessage, pendingSpawns, spawnOf, codec, buggies, ui,
                         entered, zone>>
    \/ \E c \in DOMAIN calls, ok \in BOOLEAN :
          /\ PlayerResumeSend(c, ok)
          /\ exited' = Exited(exited, out')
          /\ UNCHANGED <<errorMessage, pendingSpawns, spawnOf, codec, buggies, ui,
                         entered, zone>>

ExitSpec == Init /\ [][ExitNext]_vars

\* a despawn zone with each objectTag, with and without feedback text gizmo
FilterInit ==
    /\ InitSpawnUI
    /\ codec = NoCodecRun
    /\ InitOthers
    /\ zone \in {NewZone(objectTag, feedbackText) :
                   objectTag \in ObjectTags, feedbackText \in BOOLEAN}

FilterNext ==
    \/ \E entityId \in Handles \cup {Foreign}, entityTags \in EntityTagLists :
          OnEntityEnterTrigger(entityId, entityTags)
    \/ ZoneTextReset

FilterSpec == FilterInit /\ [][FilterNext]_vars

\* the codec run on each sample id
CodecInit ==
    /\ InitSpawnUI
    /\ codec \in {CodecRun("random", n, <<>>, <<>>, NoText, NoText) : n \in RandomIds}
    /\ InitOthers
    /\ zone = NewZone(buggyTag, TRUE)

CodecNext ==
    \/ CodecGenerate /\ UNCHANGED <<spawnVars, spawnOf, trigger, buggies, ui, entered, exited, zone>>
    \/ CodecTag /\ UNCHANGED <<spawnVars, spawnOf, trigger, buggies, ui, entered, exited, zone>>
    \/ CodecDecode /\ UNCHANGED <<spawnVars, spawnOf, trigger, buggies, ui, entered, exited, zone>>
    \/ CodecZoneDecode /\ UNCHANGED <<spawnVars, spawnOf, trigger, buggies, ui, entered, exited, zone>>

CodecSpec == CodecInit /\ [][CodecNext]_vars

\* ------------------------------------------------------------------ claims
PlayerCalls(p) ==
    {c \in DOMAIN calls : calls[c].kind = "player" /\ calls[c].key = p}

\* in-flight world.deleteAsset calls on entity h among the invocations cs
AwaitCount(cs, h) ==
    Cardinality({c \in DOMAIN cs : cs[c].entities[cs[c].i] = h})

ZeroResult(kind, key) == Result(kind, key, 0, 0, Request(kind, key), <<>>)

RECURSIVE SortedSeq(_)
\* the elements of a set of entity ids, lowest (earliest spawned) first
SortedSeq(S) ==
    IF S = {} THEN <<>>
    ELSE LET m == CHOOSE x \in S : \A y \in S : x <= y
         IN <<m>> \o SortedSeq(S \ {m})

\* C1 as stated: when a player-scoped request for p is processed while an
\* earlier one for p is suspended on a removal call and p has spawned nothing
\* since that one read p's list, the new request starts no removal call and
\* sends {count: 0, failedCount: 0}.
C1_DuplicateTakesNothing_AsStated ==
    [][\A p \in Players :
          (PlayerDespawn(p) /\ \E c \in PlayerCalls(p) : calls[c].since # "spawned")
          => (calls' = calls /\ out' = ZeroResult("player", p))]_vars

\* C1 amended: the same, when in addition no other player-scoped request for p
\* has put failed entities back under p since the suspended one read the list.
C1_DuplicateTakesNothing ==
    [][\A p \in Players :
          (PlayerDespawn(p) /\ \E c \in PlayerCalls(p) : calls[c].since = "nothing")
          => (calls' = calls /\ out' = ZeroResult("player", p))]_vars

\* a duplicate request for p has just been answered {0, 0} while the first
\* one is still suspended on a removal call
C1_Witness ==
    \E p \in Players :
        /\ \E c \in PlayerCalls(p) : calls[c].since = "nothing"
        /\ out = ZeroResult("player", p)

\* C2: world.deleteAsset is never invoked on an entity whose removal has
\* already succeeded.
C2_NoDoubleFree ==
    [][\A h \in Handles :
          AwaitCount(calls', h) > AwaitCount(calls, h) => h \notin deleted']_vars

\* C3: no entity is held at the same time by a suspended group-scoped
\* invocation and a suspended player-scoped invocation.
C3_NoHandleInTwoRequests ==
    \A c1, c2 \in DOMAIN calls :
        (calls[c1].kind = "group" /\ calls[c2].kind = "player")
        => Range(calls[c1].entities) \cap Range(calls[c2].entities) = {}

\* C4: a group-scoped or entity-scoped request sent before any player-scoped
\* request has been processed reaches a listener.
C4_KeyRequestsHandledFromStart ==
    ~(out.key[1] = "dropped" /\ out.req.kind \in {"group", "entity"})

\* C5: every request gets a listener invocation that runs to its result
\* event, and a result accounts for every entity taken, failed or not.
C5_EveryRequestAnswered ==
    /\ out # Dropped(out.req)
    /\ out.count + out.failedCount = Len(out.taken)

\* C6: a group-scoped request for an id that is not in the group index
\* (already taken, or never registered) starts no removal call and sends
\* {key: group:g, count: 0, failedCount: 0}.
C6_SecondGroupDespawnIsZero ==
    [][\A g \in GroupIds :
          (GroupDespawn(g) /\ g \notin DOMAIN groupEntities)
          => (calls' = calls /\ out' = ZeroResult("group", g))]_vars

\* C7: an entity-scoped request for a member of a live group is passed on to
\* the group listener, and the group invocation it started, when no removal
\* failed, reports every member under the group's key.
C7_EntityDelegatesToGroup ==
    [][/\ \A e \in Handles :
            (/\ EntityDespawn(e)
             /\ e \in DOMAIN entityToGroup
             /\ e \in Range(GroupMembers(groupEntities, entityToGroup[e])))
            => BagIn([groupId |-> entityToGroup[e], req |-> Request("entity", e)],
                     groupMsgs')
       /\ (out'.req.kind = "entity" /\ out'.key[1] = "group" /\ out'.failedCount = 0)
            => out'.count = Len(out'.taken)]_vars

\* C8: a group invocation has counted, of the removal calls that returned,
\* the successes in count and the failures in failed; its result is
\* {count: n - k, failedCount: k} for n entities taken and k failures; and no
\* entity it took is in a live group or in the reverse index any more.
NotLive(h) ==
    /\ h \notin DOMAIN entityToGroup
    /\ \A g \in DOMAIN groupEntities : h \notin Range(groupEntities[g])

C8_GroupPartialFailure ==
    /\ \A c \in DOMAIN calls :
          calls[c].kind = "group" =>
             /\ calls[c].count + Len(calls[c].failed) = calls[c].i - 1
             /\ Range(calls[c].failed) \subseteq
                   Range(SubSeq(calls[c].entities, 1, calls[c].i - 1))
             /\ Range(calls[c].entities) \ Range(calls[c].failed)
                   \subseteq deleted \cup
                      Range(SubSeq(calls[c].entities, calls[c].i, Len(calls[c].entities)))
             /\ \A h \in Range(calls[c].entities) : NotLive(h)
    /\ out.key[1] = "group" =>
          /\ out.count + out.failedCount = Len(out.taken)
          /\ out.count <= Cardinality(Range(out.taken) \cap deleted)
          /\ \A h \in Range(out.taken) : NotLive(h)

\* a group of two entities has just been answered with one success, one failure
C8_Witness ==
    /\ out.key[1] = "group"
    /\ Len(out.taken) = 2
    /\ out.count = 1
    /\ out.failedCount = 1

\* C9: a group all of whose members have been removed is in no index.
C9_RemovedGroupNotLive ==
    /\ \A g \in DOMAIN groupEntities :
          groupEntities[g] # <<>> => ~(Range(groupEntities[g]) \subseteq deleted)
    /\ \A h \in deleted : h \notin DOMAIN entityToGroup

\* C10: when every entity tracked for p is one p spawned and no request has
\* touched, a player-scoped request for p takes exactly the entities p
\* spawned, in spawn order, and leaves nothing for the next take.
SpawnedUntouched(p) == {h \in DOMAIN untouched : untouched[h] = p}

C10_PlayerTakeIsReadAndClear ==
    [][\A p \in Players :
          (/\ PlayerDespawn(p)
           /\ Range(getPlayerSpawnedEntities(spawnedEntities, p))
                 \subseteq DOMAIN untouched)
          => /\ getPlayerSpawnedEntities(spawnedEntities', p) = <<>>
             /\ IF SpawnedUntouched(p) = {}
                THEN calls' = calls /\ out' = ZeroResult("player", p)
                ELSE /\ Len(calls') = Len(calls) + 1
                     /\ calls'[Len(calls')].entities = SortedSeq(SpawnedUntouched(p))]_vars

\* a player-scoped request has just taken the two entities its player spawned
C10_Witness ==
    \E c \in DOMAIN calls :
        /\ calls[c].kind = "player"
        /\ Len(calls[c].entities) = 2
        /\ calls[c].i = 1
        /\ calls[c].since = "nothing"
        /\ calls[c].key \notin DOMAIN spawnedEntities
        /\ Range(calls[c].entities) \cap DOMAIN untouched = {}

\* list of the entities tracked for player p
Tracked(m, p) == Range(getPlayerSpawnedEntities(m, p))

\* C11: every member of a live group has a reverse-index entry that maps it
\* to that group's id; and the step that removes a group from the group index
\* removes the reverse-index entry of every member with it (the reverse
\* lookup gives the group id before the step and nothing after it).
C11_ReverseIndex ==
    /\ [](\A g \in DOMAIN groupEntities : \A h \in Range(groupEntities[g]) :
             h \in DOMAIN entityToGroup /\ entityToGroup[h] = g)
    /\ [][\A g \in DOMAIN groupEntities :
             g \notin DOMAIN groupEntities' =>
                \A h \in Range(groupEntities[g]) :
                   /\ MapGet(entityToGroup, h, NoGroup) = g
                   /\ MapGet(entityToGroup', h, NoGroup) = NoGroup]_vars

\* a group of two entities has just been taken by a group listener: the group
\* and both reverse-index entries are gone before the first removal returns
C11_Witness ==
    \E c \in DOMAIN calls :
        /\ calls[c].kind = "group"
        /\ calls[c].i = 1
        /\ Len(calls[c].entities) = 2
        /\ calls[c].key \notin DOMAIN groupEntities
        /\ Range(calls[c].entities) \cap DOMAIN entityToGroup = {}

\* C12: the member lists of two different live groups share no entity.
C12_GroupsDisjoint ==
    \A g1, g2 \in DOMAIN groupEntities :
        g1 # g2 => Range(groupEntities[g1]) \cap Range(groupEntities[g2]) = {}

\* two groups with members are live at once
C12_Witness ==
    \E g1, g2 \in DOMAIN groupEntities :
        g1 # g2 /\ groupEntities[g1] # <<>> /\ groupEntities[g2] # <<>>

\* C13: the group id a spawn registers is the id of no live group, so no step
\* changes the member list of a group that stays in the group index.
C13_FreshGroupId ==
    [][/\ \A p \in Players, n \in 0..MaxSpawnSize, gid \in GroupIds,
             tagged \in SUBSET Handles :
             handleSpawnRequest(p, n, gid, tagged) => gid \notin DOMAIN groupEntities
       /\ \A g \in DOMAIN groupEntities :
             g \in DOMAIN groupEntities' => groupEntities'[g] = groupEntities[g]]_vars

C15_RestoreKeepsSpawns ==
    [][\A c \in DOMAIN calls, ok \in BOOLEAN :
          (/\ PlayerResume(c, ok)
           /\ Finished(Advance(calls[c], ok))
           /\ Advance(calls[c], ok).failed # <<>>
           /\ calls[c].since = "spawned")
          => (Range(Advance(calls[c], ok).failed)
                \cup (Tracked(spawnedEntities, calls[c].key)
                         \cap SpawnedUntouched(calls[c].key)))
                \subseteq Tracked(spawnedEntities', calls[c].key)]_vars

\* C16: an entity whose removal failed in a group listener run is, when the
\* run ends, still in one of the three indices.
InRegistry(h) ==
    \/ h \in DOMAIN entityToGroup
    \/ \E g \in DOMAIN groupEntities : h \in Range(groupEntities[g])
    \/ \E p \in DOMAIN spawnedEntities : h \in Range(spawnedEntities[p])

C16_GroupFailureRetained ==
    [][\A c \in DOMAIN calls, ok \in BOOLEAN :
          (GroupResume(c, ok) /\ Finished(Advance(calls[c], ok)))
          => \A h \in Range(Advance(calls[c], ok).failed) : InRegistry(h)']_vars

\* C17: the step that ends a group listener run leaves none of the entities
\* the run took in any player's list, whether their removal succeeded or
\* failed, and leaves every other entity where it was, in the same order.
Before(s, a, b) == \E i, j \in DOMAIN s : i < j /\ s[i] = a /\ s[j] = b

C18_FaultIsolation ==
    /\ [](\A c \in DOMAIN calls :
             calls[c].kind \in {"player", "group"} =>
                /\ calls[c].i <= Len(calls[c].entities)
                /\ calls[c].count + Len(calls[c].failed) = calls[c].i - 1)
    /\ [](out.key[1] \in {"player", "group"} =>
             out.count + out.failedCount = Len(out.taken))
    /\ [][\A c \in DOMAIN calls, ok \in BOOLEAN :
             (/\ PlayerResume(c, ok) \/ GroupResume(c, ok)
              /\ calls[c].i < Len(calls[c].entities))
             => /\ Len(calls') = Len(calls)
                /\ calls'[c].entities = calls[c].entities
                /\ calls'[c].i = calls[c].i + 1]_vars

\* a player listener run over two entities has just ended: the first removal
\* failed (the entity is back in the player's list), the second succeeded
C18_Witness ==
    /\ out.key[1] = "player"
    /\ Len(out.taken) = 2
    /\ out.count = 1
    /\ out.failedCount = 1
    /\ getPlayerSpawnedEntities(spawnedEntities, out.key[2]) = <<out.taken[1]>>
    /\ out.taken[2] \in deleted

\* C19: while a listener run is suspended on a removal call, a request for
\* another player or another group still reaches a listener and is answered
\* or started.
C19_HungCallBlocksOnlyItself ==
    [][/\ \A g \in GroupIds :
             (/\ GroupDespawn(g)
              /\ calls # <<>>
              /\ \A c \in DOMAIN calls : calls[c].kind # "group" \/ calls[c].key # g)
             => out' # Dropped(Request("group", g))
       /\ \A p \in Players :
             (/\ PlayerDespawn(p)
              /\ calls # <<>>
              /\ PlayerCalls(p) = {})
             => \/ out' = ZeroResult("player", p)
                \/ calls'[Len(calls')].entities
                      = getPlayerSpawnedEntities(spawnedEntities, p)]_vars

\* C20: an entity-scoped request whose entity resolves to no group starts one
\* listener run with one removal call on that entity, and that run ends with
\* one result under the entity's key, {1, 0} or {0, 1}.
C20_EntityDirect ==
    [][/\ \A e \in Handles \cup {Foreign} :
             (EntityDespawn(e) /\ ResolveGroup(e) = NoGroup)
             => calls' = Append(calls, NewCall("entity", Request("entity", e), e, <<e>>))
       /\ \A c \in DOMAIN calls, ok \in BOOLEAN :
             EntityResume(c, ok)
             => out' = Result("entity", calls[c].key, IF ok THEN 1 ELSE 0,
                              IF ok THEN 0 ELSE 1, calls[c].req, <<calls[c].key>>)]_vars

\* C21: when the entity listener's own removal call has returned, whether it
\* succeeded or threw, no player's list holds the entity.
C21_EntityDirectPrunes ==
    [][\A c \in DOMAIN calls, ok \in BOOLEAN :
          EntityResume(c, ok)
          => \A p \in DOMAIN spawnedEntities' :
                calls[c].key \notin Range(spawnedEntities'[p])]_vars

\* C22: a spawn that ends because no asset is configured or because the
\* creation call threw changes none of the three indices, creates no entity
\* and starts no removal; it sets the error text.
C22_SpawnFailureFrame ==
    [][\A p \in Players :
          (SpawnNoAsset(p) \/ SpawnRejected(p))
          => /\ UNCHANGED registry
             /\ UNCHANGED <<tags, deleted, nextHandle, calls>>
             /\ errorMessage' \in {"Error: No Asset Configured",
                                   "Error spawning asset"}]_vars

\* a spawn of a player who owns an entity has just failed in the creation
\* call: the error text is shown, the entity is still registered
C22_Witness ==
    /\ errorMessage = "Error spawning asset"
    /\ \E p \in DOMAIN spawnedEntities : spawnedEntities[p] # <<>>
    /\ DOMAIN groupEntities # {}
    /\ DOMAIN entityToGroup # {}

\* C23: a spawn whose creation call returned no entity stores no group and
\* creates no ownership entry.
C23_EmptySpawnNoOp ==
    [][\A p \in Players, gid \in GroupIds, tagged \in SUBSET Handles :
          handleSpawnRequest(p, 0, gid, tagged)
          => UNCHANGED <<groupEntities, spawnedEntities>>]_vars

\* the entities a spawn of n entities creates in the current state
NewEntities(n) == [i \in 1..n |-> nextHandle + i - 1]

\* C24: one step of a successful spawn by p of entities H maps the new group
\* id to H, maps every entity of H to that id, and extends p's list by H,
\* keeping what was in it.
C24_SpawnEnrols ==
    [][nextHandle' # nextHandle =>
       \A p \in Players, n \in 1..MaxSpawnSize, gid \in GroupIds,
          tagged \in SUBSET Handles :
          (nextHandle' = nextHandle + n /\ handleSpawnRequest(p, n, gid, tagged))
          => /\ Range(NewEntities(n)) \cap
                   (DOMAIN entityToGroup \cup Tracked(spawnedEntities, p)) = {}
             /\ MapGet(groupEntities', gid, <<>>) = NewEntities(n)
             /\ \A h \in Range(NewEntities(n)) :
                   MapGet(entityToGroup', h, NoGroup) = gid
             /\ MapGet(spawnedEntities', p, <<>>)
                   = getPlayerSpawnedEntities(spawnedEntities, p) \o NewEntities(n)]_vars

\* a player owns the entities of two spawns, each in its own group
C24_Witness ==
    \E p \in DOMAIN spawnedEntities :
        /\ Len(spawnedEntities[p]) = 2
        /\ \A i \in 1..2 :
              /\ spawnedEntities[p][i] \in DOMAIN entityToGroup
              /\ groupEntities[entityToGroup[spawnedEntities[p][i]]]
                    = <<spawnedEntities[p][i]>>

\* C25: when tagging some entities of a spawn throws, the other entities of
\* the spawn get their group tag all the same, and every entity of the spawn,
\* tagged or not, is in the group, the reverse index and the player's list.
C25_TagFailureNonFatal ==
    [][nextHandle' # nextHandle =>
       \A p \in Players, n \in 1..MaxSpawnSize, gid \in GroupIds,
          tagged \in SUBSET Handles :
          (nextHandle' = nextHandle + n /\ handleSpawnRequest(p, n, gid, tagged))
          => \A h \in Range(NewEntities(n)) :
                /\ tags'[h] = IF h \in tagged THEN gid ELSE NoGroup
                /\ h \in Range(groupEntities'[gid])
                /\ entityToGroup'[h] = gid
                /\ h \in Tracked(spawnedEntities', p)]_vars

\* a group of two entities is registered whose first entity could not be
\* tagged and whose second entity carries the group tag
C25_Witness ==
    \E g \in DOMAIN groupEntities :
        /\ Len(groupEntities[g]) = 2
        /\ tags[groupEntities[g][1]] = NoGroup
        /\ tags[groupEntities[g][2]] = g
        /\ \A h \in Range(groupEntities[g]) :
              /\ MapGet(entityToGroup, h, NoGroup) = g
              /\ \E p \in DOMAIN spawnedEntities : h \in Range(spawnedEntities[p])

\* C26: for every id the generator makes, the group tag written on an entity
\* has at most 20 characters and starts with 'gid:', and the id read back
\* from the entity's tags, by SpawnUI and by a despawn zone, is the id made.
C26_TagRoundTrip ==
    /\ codec.phase \in {"generated", "tagged"} =>
          /\ Len(safeTag(codec.gid)) <= MaxTagLen
          /\ StartsWith(safeTag(codec.gid), GidPrefix)
    /\ codec.phase = "tagged" =>
          /\ codec.decoded \in {NoText, codec.gid}
          /\ codec.zoneDecoded \in {NoText, codec.gid}
          /\ DecodeGroupId(codec.entityTags) = codec.gid
          /\ ZoneDecodeGroupId(codec.entityTags) = codec.gid

\* the largest id, seven characters long, has been written and read back
C26_Witness ==
    /\ codec.phase = "tagged"
    /\ codec.n = <<LimbBase - 1, LimbBase - 2>>
    /\ Len(codec.gid) = 7
    /\ codec.decoded = codec.gid
    /\ codec.zoneDecoded = codec.gid

\* the entities spawned together with e: the buggy e is a part of
Buggy(e) == {h \in DOMAIN spawnOf : e \in DOMAIN spawnOf /\ spawnOf[h] = spawnOf[e]}

\* the removal runs the zone's messages for an entering entity have started
ZoneCalls(e) ==
    {c \in DOMAIN calls : calls[c].req.kind \in {"entity", "zone"} /\ calls[c].req.key = e}

\* C27: when an entity that carries a gid tag enters a despawn zone, the
\* removal runs started by the zone's two messages work on entities of the
\* entering buggy only, and no two of them work on the same entity.
C27_ZoneRemovesEnteringBuggy ==
    \A e \in DOMAIN spawnOf :
        tags[e] # NoGroup =>
            /\ \A c \in ZoneCalls(e) : Range(calls[c].entities) \subseteq Buggy(e)
            /\ \A c, d \in ZoneCalls(e) :
                   c # d => Range(calls[c].entities) \cap Range(calls[d].entities) = {}

\* C28: the result of a player-scoped despawn reaches the trigger: when a
\* despawnResultEvent sent by SpawnUI arrives, the TriggerLogic sets its text
\* gizmo to 'Player <id>: Despawned <count> entities, <failedCount> failed'.
C28_ResultReachesTrigger ==
    [][\A m \in trigger.results :
          DeliverResult(m) => trigger'.text = ResultText(m)]_vars

\* the step is a hard stop of buggy id: a TourControlEvent stop without
\* pause or a TourPathEvent stop that the buggy takes, or a stop trigger
HardStop(id) ==
    \/ \E t \in Targets : Addressed(t, id) /\ TourControl("stop", FALSE, t)
    \/ \E travelAxis \in TravelAxes, faceAxis \in FaceAxes, t \in Targets :
          Addressed(t, id) /\ TourPath(travelAxis, faceAxis, TRUE, t)
    \/ StopTrigger(id)

\* C29: every hard stop of a buggy whose tour has been started puts the
\* mover back at the transform it had when that tour was first started, also
\* when the tour was paused and resumed in between.
C29_StopResetsToFirstStart ==
    [][\A id \in Buggies :
          HardStop(id) /\ buggies[id].tourStart.position # NullPosition =>
              /\ buggies'[id].position = buggies[id].tourStart.position
              /\ buggies'[id].rotation = buggies[id].tourStart.rotation]_vars

\* C30: a TourControlEvent or TourPathEvent with a targetEntityId is applied
\* by the buggy with that entity id and leaves every other buggy as it was;
\* an event without a target is applied by every buggy.
C30_TargetedControl ==
    [][/\ \A action \in {"start", "stop"}, pause \in BOOLEAN, t \in Targets :
             TourControl(action, pause, t) =>
                 \A id \in Buggies :
                     buggies'[id] = IF t \in {NoTarget, id}
                                    THEN ApplyControl(buggies[id], action, pause)
                                    ELSE buggies[id]
       /\ \A travelAxis \in TravelAxes, faceAxis \in FaceAxes, stop \in BOOLEAN,
             t \in Targets :
             TourPath(travelAxis, faceAxis, stop, t) =>
                 \A id \in Buggies :
                     buggies'[id] = IF t \in {NoTarget, id}
                                    THEN ApplyPath(buggies[id], travelAxis, faceAxis, stop)
                                    ELSE buggies[id]]_vars

\* targeted events have started buggy 1 and set its travel direction, and
\* buggy 2 is as it was constructed
C30_Witness ==
    /\ buggies[1].running
    /\ buggies[1].worldTravelDir # NoDir
    /\ buggies[1].position # NewBuggy.position
    /\ buggies[2] = NewBuggy

\* C31: when the mover of a buggy enters a guidance trigger in entity-trigger
\* mode, that buggy applies the stop or path event the trigger sends, also
\* when its mover is not the entity the script sits on: right after the
\* entry the buggy is stopped, or faces and travels as the trigger says.
C31_GuidanceReachesBuggy ==
    entered.id \in Buggies =>
        LET b == buggies[entered.id]
            travel == parseAxisToWorldDir(entered.travelAxis)
            face == IF entered.faceAxis # "" THEN parseAxisToWorldDir(entered.faceAxis)
                    ELSE travel
        IN IF entered.stop THEN ~b.running /\ ~b.paused
           ELSE entered.travelAxis # "" =>
                   b.worldTravelDir = travel /\ b.rotation = FacingRotation(face)

\* C32: a group-scoped or entity-scoped request reaches exactly one listener,
\* however many player-scoped requests have been processed before it.
C32_OneInvocationPerRequest ==
    [][((\E g \in GroupIds : GroupDespawn(g))
          \/ (\E e \in Handles \cup {Foreign} : EntityDespawn(e)))
       => handlers = 1]_vars

\* C33: a listener run for an entity-scoped request that resolves a group
\* starts no removal call of its own and sends no result under the entity's
\* key; it sends the group request, and the removal run started when that
\* request is delivered is a run of the group listener.
C33_EntityDelegates ==
    /\ [][\A e \in Handles \cup {Foreign} :
             (EntityDespawn(e) /\ ResolveGroup(e) # NoGroup /\ handlers > 0)
             => /\ calls' = calls
                /\ out'.key[1] # "entity"
                /\ CopiesIn([groupId |-> ResolveGroup(e), req |-> Request("entity", e)],
                            groupMsgs') > 0]_vars
    /\ [][\A m \in BagToSet(groupMsgs) :
             (GroupDelegated(m) /\ m.req.kind = "entity")
             => /\ out'.key[1] # "entity"
                /\ \A c \in DOMAIN calls' :
                      c > Len(calls) => /\ calls'[c].kind = "group"
                                        /\ calls'[c].req = m.req]_vars

\* an entity-scoped request has been delegated and the group listener is
\* removing the group's entities for it
C33_Witness ==
    \E c \in DOMAIN calls :
        /\ calls[c].kind = "group"
        /\ calls[c].req.kind = "entity"
        /\ calls[c].req.key \in Range(calls[c].entities)

\* C34: when the group request delegated by an entity-scoped request for an
\* entity that still exists has been handled, a removal call on that entity
\* has been started: some removal run holds the entity.
C34_EntityRequestAttempts ==
    [][\A m \in BagToSet(groupMsgs) :
          (/\ GroupDelegated(m)
           /\ m.req.kind = "entity"
           /\ m.req.key \notin deleted
           /\ handlers = 1)
          => \E c \in DOMAIN calls' : m.req.key \in Range(calls'[c].entities)]_vars

\* C35: every reverse-index entry h -> g names a group g of the group index
\* whose list holds h.
C35_ReverseIndexSound ==
    \A h \in DOMAIN entityToGroup :
        /\ entityToGroup[h] \in DOMAIN groupEntities
        /\ h \in Range(groupEntities[entityToGroup[h]])

\* C36: no ownership leaks past a disconnect: once the despawn sent at a
\* player's world exit has completed without failure and every spawn the player
\* started has finished, the registry holds no handle owned by that player,
\* also when a spawn of the player was in flight when the request was processed
C36_NoOwnershipAfterExit ==
    \A p \in Players :
        (exited[p] = "done" /\ pendingSpawns[p] = 0)
            => getPlayerSpawnedEntities(spawnedEntities, p) = <<>>

\* the despawn-by-entity requests among the events of the last callback run
ByEntitySent == {i \in DOMAIN zone.sent : zone.sent[i].event = "requestDespawnByEntityEvent"}

\* C37: despawn zone tag filter: with a non-empty objectTag, an entering
\* entity without that tag causes no despawn request of any kind and no change
\* of the feedback text; an entering entity with the tag causes exactly one
\* despawn-by-entity request, for that entity
C37_ZoneTagFilter ==
    (zone.objectTag # <<>> /\ zone.entering # 0) =>
        IF zone.objectTag \in Range(zone.enteringTags)
        THEN /\ Cardinality(ByEntitySent) = 1
             /\ \A i \in ByEntitySent : zone.sent[i].entityId = zone.entering
        ELSE zone.sent = <<>> /\ zone.text = zone.before

\* an entity with a gid tag and without the zone's tag has entered
C37_Witness ==
    /\ zone.objectTag = buggyTag
    /\ zone.entering # 0
    /\ zone.enteringTags = <<carTag, sampleGidTag>>
    /\ zone.feedbackText

\* C38 as stated: a paused buggy is not running, an update tick moves a
\* mover only when its buggy is running and not paused, and a UI pause keeps
\* the transform (position and rotation) exactly where it is until the next
\* start or hard stop
C38_PauseKeepsTransform ==
    /\ [](\A id \in Buggies : buggies[id].paused => ~buggies[id].running)
    /\ [][\A id \in Buggies :
             /\ (Update /\ buggies'[id].position # buggies[id].position)
                    => (buggies[id].running /\ ~buggies[id].paused)
             /\ (buggies[id].paused /\ buggies'[id].paused)
                    => /\ buggies'[id].position = buggies[id].position
                       /\ buggies'[id].rotation = buggies[id].rotation]_vars

\* C38: a paused buggy is not running, an update tick moves a mover only
\* when its buggy is running and not paused, and while a buggy stays paused no
\* step moves its mover and only a TourPathEvent without stop turns it, to the
\* facing the event asks for
C38_PauseKeepsPosition ==
    /\ [](\A id \in Buggies : buggies[id].paused => ~buggies[id].running)
    /\ [][\A id \in Buggies :
             /\ (Update /\ buggies'[id].position # buggies[id].position)
                    => (buggies[id].running /\ ~buggies[id].paused)
             /\ (buggies[id].paused /\ buggies'[id].paused)
                    => /\ buggies'[id].position = buggies[id].position
                       /\ \/ buggies'[id].rotation = buggies[id].rotation
                          \/ \E travelAxis \in TravelAxes, faceAxis \in FaceAxes,
                                t \in Targets :
                                /\ Addressed(t, id)
                                /\ TourPath(travelAxis, faceAxis, FALSE, t)]_vars

\* a buggy paused away from where it was started, another one running
C38_Witness ==
    \E id, other \in Buggies :
        /\ buggies[id].paused
        /\ buggies[id].initialPosition # NullPosition
        /\ buggies[id].position # buggies[id].initialPosition
        /\ buggies[other].running

\* C39: the Start/Stop button agrees with the buggy: for every player the
\* button of the TourBuggyUI shows its running state (the stop label) exactly
\* when the buggy it targets is running, after any sequence of button clicks,
\* guidance events and stop-trigger entries
C39_ButtonAgreesWithBuggy ==
    \A p \in Players : ui[p] = buggies[UIBuggy].running

\* C40: a TourPathEvent without stop changes only the facing and the travel
\* direction of the buggies it addresses (with the smoothed velocity of the
\* travel set to zero): running, paused, the mover's position and the recorded
\* initial transform stay as they are; no other step changes the travel
\* direction override, so it stays in force over a hard stop and a restart,
\* and a frame of a running buggy moves the mover along it
C40_PathSetsDirectionOnly ==
    [][/\ \A travelAxis \in TravelAxes, faceAxis \in FaceAxes, t \in Targets :
             TourPath(travelAxis, faceAxis, FALSE, t) =>
                 \A id \in Buggies :
                     Addressed(t, id) =>
                         /\ buggies'[id] =
                               [buggies[id] EXCEPT
                                  !.rotation = buggies'[id].rotation,
                                  !.worldTravelDir = buggies'[id].worldTravelDir,
                                  !.kinematicVel = NoDir]
                         /\ buggies'[id].worldTravelDir = parseAxisToWorldDir(travelAxis)
                         /\ buggies'[id].rotation.kind = "facing"
       /\ \A id \in Buggies :
             /\ buggies'[id].worldTravelDir # buggies[id].worldTravelDir
                    => \E travelAxis \in TravelAxes, faceAxis \in FaceAxes,
                          t \in Targets :
                          Addressed(t, id) /\ TourPath(travelAxis, faceAxis, FALSE, t)
             /\ (Update /\ buggies[id].running /\ buggies[id].worldTravelDir # NoDir)
                    => buggies'[id].position =
                          VecAdd(buggies[id].position, buggies[id].worldTravelDir)]_vars

\* a buggy that got a path event, was stopped hard (its mover is back in the
\* rotation it was placed with), was started again and has moved
C40_Witness ==
    \E id \in Buggies :
        /\ buggies[id].running
        /\ buggies[id].worldTravelDir # NoDir
        /\ buggies[id].rotation = PlacedRotation
        /\ buggies[id].position # buggies[id].initialPosition

====
